---- MODULE Spec2Model ----
(***************************************************************************)
(* Round boundary detection of valorant-round-tracker                      *)
(* (src/round_detector.py, class RoundDetector).                           *)
(*                                                                         *)
(* Python values are modelled as follows.                                  *)
(*   - a str is the sequence of its characters, <<"1", ":", "4", "0">>;    *)
(*   - an Optional value is None == <<>> or Some(v) == <<v>>;              *)
(*   - a timestamp is an integer number of seconds;                        *)
(*   - a round dict is a record; its key 'duration', which the code adds   *)
(*     only under a condition, is an Optional field (None: key absent);    *)
(*   - a reading's 'timer_value' is tagged: [isdict |-> TRUE, timer,       *)
(*     red_triangle] for a dict, [isdict |-> FALSE, value] otherwise.      *)
(***************************************************************************)
EXTENDS Integers, Sequences, FiniteSets, TLC

VARIABLES timer_readings, sorted_readings, i, rounds, current_round,
          spike_plant_time, consecutive_nothings, first_nothing_timestamp, pc,
          codec_seconds, codec_token, codec_parsed, clips, printed

\* The locals of detect_rounds.
detect_vars ==
    <<timer_readings, sorted_readings, i, rounds, current_round,
      spike_plant_time, consecutive_nothings, first_nothing_timestamp>>

\* The argument and result of seconds_to_fmt and of parse_timer.
codec_vars == <<codec_seconds, codec_token, codec_parsed>>

\* The results of generate_round_clips and of print_round_summary.
report_vars == <<clips, printed>>

vars == <<detect_vars, pc, codec_vars, report_vars>>

(***************************************************************************)
(* Optional values and Python truthiness                                   *)
(***************************************************************************)
None == <<>>

Some(v) == <<v>>

Val(o) == o[1]

\* Python truth value of an Optional number: None and 0 are false.
TruthyNum(o) == o # None /\ Val(o) # 0

\* Python truth value of an Optional str: None and "" are false.
TruthyStr(o) == o # None /\ Val(o) # <<>>

Max(a, b) == IF a >= b THEN a ELSE b

(***************************************************************************)
(* Class constants                                                         *)
(***************************************************************************)
T_1_40 == <<"1", ":", "4", "0">>
T_1_39 == <<"1", ":", "3", "9">>
T_1_38 == <<"1", ":", "3", "8">>
T_1_37 == <<"1", ":", "3", "7">>
T_1_36 == <<"1", ":", "3", "6">>
T_1_35 == <<"1", ":", "3", "5">>
T_1_34 == <<"1", ":", "3", "4">>
T_1_33 == <<"1", ":", "3", "3">>
T_1_32 == <<"1", ":", "3", "2">>
T_1_31 == <<"1", ":", "3", "1">>
T_1_30 == <<"1", ":", "3", "0">>

ROUND_START_TIMES ==
    <<T_1_40, T_1_39, T_1_38, T_1_37, T_1_36, T_1_35, T_1_34, T_1_33,
      T_1_32, T_1_31, T_1_30>>

SPIKE_TIMEOUT_SECONDS == 35

ROUND_END_BUFFER_SECONDS == 10

STANDARD_ROUND_DURATION_SECONDS == 100

ROUND_END_NOTHING_THRESHOLD == 2

\* The replay window of detect_rounds: 0:31 .. 1:29.
REPLAY_LOW == 31

REPLAY_HIGH == 89

NOTHING == <<"n", "o", "t", "h", "i", "n", "g">>

SPIKE_PLANTED ==
    <<"s", "p", "i", "k", "e", " ", "p", "l", "a", "n", "t", "e", "d">>

(***************************************************************************)
(* Timer codec: parse_timer, seconds_to_fmt                                *)
(***************************************************************************)
DigitChars == <<"0", "1", "2", "3", "4", "5", "6", "7", "8", "9">>

IsDigit(c) == \E d \in 1..10 : DigitChars[d] = c

DigitVal(c) == (CHOOSE d \in 1..10 : DigitChars[d] = c) - 1

\* str.split(':'): the pieces between the colons, empty pieces included.
RECURSIVE SplitColon(_)
SplitColon(s) ==
    IF \A k \in 1..Len(s) : s[k] # ":"
    THEN <<s>>
    ELSE LET k == CHOOSE j \in 1..Len(s) :
                      s[j] = ":" /\ \A h \in 1..(j - 1) : s[h] # ":"
         IN  <<SubSeq(s, 1, k - 1)>> \o SplitColon(SubSeq(s, k + 1, Len(s)))

\* str.strip() as int() applies it (the model's only whitespace is " ").
RECURSIVE StripSpaces(_)
StripSpaces(s) ==
    IF s = <<>> THEN s
    ELSE IF Head(s) = " " THEN StripSpaces(Tail(s))
    ELSE IF s[Len(s)] = " " THEN StripSpaces(SubSeq(s, 1, Len(s) - 1))
    ELSE s

RECURSIVE DigitsValue(_)
DigitsValue(s) ==
    IF s = <<>> THEN 0
    ELSE 10 * DigitsValue(SubSeq(s, 1, Len(s) - 1)) + DigitVal(s[Len(s)])

\* int(str): surrounding whitespace, an optional sign, then decimal digits;
\* None stands for ValueError.
PyInt(s) ==
    LET t      == StripSpaces(s)
        signed == t # <<>> /\ Head(t) \in {"+", "-"}
        digits == IF signed THEN Tail(t) ELSE t
    IN  IF digits = <<>> \/ \E k \in 1..Len(digits) : ~IsDigit(digits[k])
        THEN None
        ELSE Some(IF signed /\ Head(t) = "-"
                  THEN 0 - DigitsValue(digits)
                  ELSE DigitsValue(digits))

parse_timer(timer_str) ==
    IF ~TruthyStr(timer_str) THEN None
    ELSE LET parts == SplitColon(Val(timer_str))
         IN  IF Len(parts) # 2 THEN None
             ELSE LET minutes == PyInt(parts[1])
                      seconds == PyInt(parts[2])
                  IN  IF minutes = None \/ seconds = None THEN None
                      ELSE Some(Val(minutes) * 60 + Val(seconds))

RECURSIVE NatToStr(_)
NatToStr(n) ==
    IF n < 10 THEN <<DigitChars[n + 1]>>
    ELSE NatToStr(n \div 10) \o <<DigitChars[(n % 10) + 1]>>

\* f"{m}": the decimal form of an int.
IntToStr(n) == IF n < 0 THEN <<"-">> \o NatToStr(0 - n) ELSE NatToStr(n)

\* f"{s:02d}": zero-padded to width 2.
Pad2(n) ==
    IF n < 0 THEN IntToStr(n)
    ELSE IF n < 10 THEN <<"0">> \o NatToStr(n)
    ELSE NatToStr(n)

\* Mutant: the seconds are not reduced modulo 60.
seconds_to_fmt_NoModulo(seconds) ==
    IntToStr(seconds \div 60) \o <<":">> \o Pad2(seconds)

\* seconds is a whole number here, so int(round(seconds % 60)) is seconds % 60.
seconds_to_fmt(seconds) ==
    LET m0 == seconds \div 60
        s0 == seconds % 60
        m  == IF s0 = 60 THEN m0 + 1 ELSE m0
        s  == IF s0 = 60 THEN 0 ELSE s0
    IN  IntToStr(m) \o <<":">> \o Pad2(s)

\* Mutant: every token that parses counts as a round start.
is_round_start_timer_AnyTimer(timer_str) == parse_timer(timer_str) # None

is_round_start_timer(timer_str) ==
    /\ TruthyStr(timer_str)
    /\ \E k \in 1..Len(ROUND_START_TIMES) : ROUND_START_TIMES[k] = Val(timer_str)

\* Mutant: the elapsed time is added instead of subtracted.
calculate_round_start_timestamp_Forward(observed_timestamp, timer_str) ==
    LET timer_seconds == parse_timer(timer_str)
    IN  IF timer_seconds = None THEN observed_timestamp
        ELSE observed_timestamp
                 + Max(0, STANDARD_ROUND_DURATION_SECONDS - Val(timer_seconds))

\* Mutant: the observed timestamp is taken as the start, without refinement.
calculate_round_start_timestamp_Observed(observed_timestamp, timer_str) ==
    observed_timestamp

calculate_round_start_timestamp(observed_timestamp, timer_str) ==
    LET timer_seconds == parse_timer(timer_str)
    IN  IF timer_seconds = None THEN observed_timestamp
        ELSE observed_timestamp
                 - Max(0, STANDARD_ROUND_DURATION_SECONDS - Val(timer_seconds))

(***************************************************************************)
(* Readings                                                                *)
(***************************************************************************)
DictValue(timer, red_triangle) ==
    [isdict |-> TRUE, timer |-> timer, red_triangle |-> red_triangle]

PlainValue(value) == [isdict |-> FALSE, value |-> value]

Reading(timestamp, timer_value) ==
    [timestamp |-> timestamp, timer_value |-> timer_value]

\* reading['timer_value'].get('timer') or reading.get('timer_value')
ReadingToken(reading) ==
    IF reading.timer_value.isdict
    THEN reading.timer_value.timer
    ELSE reading.timer_value.value

\* Mutant: a plain timer_value counts as carrying the red triangle.
ReadingRedTriangle_PlainTrue(reading) ==
    IF reading.timer_value.isdict
    THEN reading.timer_value.red_triangle
    ELSE TRUE

\* reading['timer_value'].get('red_triangle', False), or False
ReadingRedTriangle(reading) ==
    IF reading.timer_value.isdict
    THEN reading.timer_value.red_triangle
    ELSE FALSE

\* Mutant: the sort key is reversed (latest reading first).
RECURSIVE InsertByTimestamp_Descending(_, _)
InsertByTimestamp_Descending(s, r) ==
    IF s = <<>> THEN <<r>>
    ELSE IF s[Len(s)].timestamp >= r.timestamp THEN Append(s, r)
    ELSE Append(InsertByTimestamp_Descending(SubSeq(s, 1, Len(s) - 1), r),
                s[Len(s)])

\* Mutant: a reading is exchanged with the last placed reading at most, so
\* it does not travel further down.
InsertByTimestamp_OneExchange(s, r) ==
    IF s = <<>> THEN <<r>>
    ELSE IF s[Len(s)].timestamp <= r.timestamp THEN Append(s, r)
    ELSE Append(Append(SubSeq(s, 1, Len(s) - 1), r), s[Len(s)])

\* sorted(timer_readings, key=timestamp): a stable sort, so a reading goes
\* after every reading already placed whose timestamp is not greater.
RECURSIVE InsertByTimestamp(_, _)
InsertByTimestamp(s, r) ==
    IF s = <<>> THEN <<r>>
    ELSE IF s[Len(s)].timestamp <= r.timestamp THEN Append(s, r)
    ELSE Append(InsertByTimestamp(SubSeq(s, 1, Len(s) - 1), r), s[Len(s)])

\* Mutant: the readings are swept in arrival order.
SortByTimestamp_Unsorted(s) == s

RECURSIVE SortByTimestamp(_)
SortByTimestamp(s) ==
    IF s = <<>> THEN <<>>
    ELSE InsertByTimestamp(SortByTimestamp(SubSeq(s, 1, Len(s) - 1)), s[Len(s)])

(***************************************************************************)
(* The sweep of detect_rounds.  The loop's local variables are threaded    *)
(* through the steps as one record st.                                     *)
(***************************************************************************)
SweepState(rs, cur, spt, cn, fnt) ==
    [rounds |-> rs, current_round |-> cur, spike_plant_time |-> spt,
     consecutive_nothings |-> cn, first_nothing_timestamp |-> fnt]

InitialSweepState == SweepState(<<>>, None, None, 0, None)

\* Mutant: the replay window reaches up to 1:40 and swallows round starts.
EffectiveToken_SuppressesStarts(cn, timer_str) ==
    IF cn > 0 /\ timer_str # Some(NOTHING)
    THEN LET t_secs == parse_timer(timer_str)
         IN  IF t_secs # None /\ REPLAY_LOW <= Val(t_secs)
                              /\ Val(t_secs) <= STANDARD_ROUND_DURATION_SECONDS
             THEN Some(NOTHING)
             ELSE timer_str
    ELSE timer_str

\* Mutant: the replay window is half-open, 1:29 is outside it.
EffectiveToken_HalfOpen(cn, timer_str) ==
    IF cn > 0 /\ timer_str # Some(NOTHING)
    THEN LET t_secs == parse_timer(timer_str)
         IN  IF t_secs # None /\ REPLAY_LOW <= Val(t_secs)
                              /\ Val(t_secs) < REPLAY_HIGH
             THEN Some(NOTHING)
             ELSE timer_str
    ELSE timer_str

\* Lines 137-141: a mid-round time read during a "nothing" run is a replay.
EffectiveToken(cn, timer_str) ==
    IF cn > 0 /\ timer_str # Some(NOTHING)
    THEN LET t_secs == parse_timer(timer_str)
         IN  IF t_secs # None /\ REPLAY_LOW <= Val(t_secs)
                              /\ Val(t_secs) <= REPLAY_HIGH
             THEN Some(NOTHING)
             ELSE timer_str
    ELSE timer_str

\* Mutant: the end reason is left unset.
EndRound_NoReason(round, end_timestamp, end_reason) ==
    [round EXCEPT !.end_timestamp = Some(end_timestamp),
                  !.end_time_fmt  = Some(seconds_to_fmt(end_timestamp))]

\* The three assignments that end a round.
EndRound(round, end_timestamp, end_reason) ==
    [round EXCEPT !.end_timestamp = Some(end_timestamp),
                  !.end_time_fmt  = Some(seconds_to_fmt(end_timestamp)),
                  !.end_reason    = Some(end_reason)]

\* Mutant: the round ends at the reading that confirms the disappearance.
DisappearedEndTime_Confirming(first_nothing, timestamp) == timestamp

\* Line 151: where a round whose timer disappeared ends.
DisappearedEndTime(first_nothing, timestamp) == first_nothing

\* Mutant: closing the round whose timer disappeared keeps the active plant.
NothingStep_KeepsPlant(st, timestamp) ==
    LET fnt == IF st.consecutive_nothings = 0
               THEN Some(timestamp)
               ELSE st.first_nothing_timestamp
        cn  == st.consecutive_nothings + 1
    IN  IF st.current_round # None /\ cn >= ROUND_END_NOTHING_THRESHOLD
        THEN SweepState(
                 Append(st.rounds,
                        EndRound(Val(st.current_round),
                                 DisappearedEndTime(Val(fnt), timestamp),
                                 "timer_disappeared")),
                 None, st.spike_plant_time, cn, fnt)
        ELSE SweepState(st.rounds, st.current_round, st.spike_plant_time,
                        cn, fnt)

\* Mutant: the round whose timer disappeared is dropped, not appended.
NothingStep_DropsRound(st, timestamp) ==
    LET fnt == IF st.consecutive_nothings = 0
               THEN Some(timestamp)
               ELSE st.first_nothing_timestamp
        cn  == st.consecutive_nothings + 1
    IN  IF st.current_round # None /\ cn >= ROUND_END_NOTHING_THRESHOLD
        THEN SweepState(st.rounds, None, None, cn, fnt)
        ELSE SweepState(st.rounds, st.current_round, st.spike_plant_time,
                        cn, fnt)

\* Lines 143-158: a "nothing" frame.
NothingStep(st, timestamp) ==
    LET fnt == IF st.consecutive_nothings = 0
               THEN Some(timestamp)
               ELSE st.first_nothing_timestamp
        cn  == st.consecutive_nothings + 1
    IN  IF st.current_round # None /\ cn >= ROUND_END_NOTHING_THRESHOLD
        THEN SweepState(
                 Append(st.rounds,
                        EndRound(Val(st.current_round),
                                 DisappearedEndTime(Val(fnt), timestamp),
                                 "timer_disappeared")),
                 None, None, cn, fnt)
        ELSE SweepState(st.rounds, st.current_round, st.spike_plant_time,
                        cn, fnt)

\* Mutant: the "nothing" tracker is not reset.
ResetNothing_Unchanged(st) == st

\* Mutant: the counter is reset, the start of the run is kept.
ResetNothing_KeepsStart(st) ==
    SweepState(st.rounds, st.current_round, st.spike_plant_time,
               0, st.first_nothing_timestamp)

\* Lines 160-163: a valid timer or spike text resets the "nothing" tracker.
ResetNothing(st) ==
    SweepState(st.rounds, st.current_round, st.spike_plant_time, 0, None)

\* Mutant: the cut is not clamped to the round's own start.
NextRoundEndTime_NoClamp(round, refined_start_time) ==
    refined_start_time - ROUND_END_BUFFER_SECONDS

\* Mutant: the previous round runs up to the next round's start, no buffer.
NextRoundEndTime_AtRefinedStart(round, refined_start_time) ==
    Max(round.start_timestamp, refined_start_time)

\* Mutant: the buffer is added instead of subtracted.
NextRoundEndTime_BufferAdded(round, refined_start_time) ==
    Max(round.start_timestamp, refined_start_time + ROUND_END_BUFFER_SECONDS)

\* Lines 176-179: the previous round is cut before the next one starts.
NextRoundEndTime(round, refined_start_time) ==
    Max(round.start_timestamp, refined_start_time - ROUND_END_BUFFER_SECONDS)

\* Lines 186-197: the dict of a round that starts.
NewRound(round_number, refined_start_time, timestamp, timer_str) ==
    [round_number             |-> round_number,
     start_timestamp          |-> refined_start_time,
     start_time_fmt           |-> seconds_to_fmt(refined_start_time),
     observed_start_timestamp |-> timestamp,
     start_timer              |-> timer_str,
     end_timestamp            |-> None,
     end_time_fmt             |-> None,
     end_reason               |-> None,
     spike_planted            |-> FALSE,
     spike_plant_timestamp    |-> None,
     duration                 |-> None]

\* Mutant: rounds are numbered from 0.
NextRoundNumber_ZeroBased(rs) == Len(rs)

\* Line 187: 'round_number': len(rounds) + 1
NextRoundNumber(rs) == Len(rs) + 1

\* Mutant: the round start leaves the active plant timestamp as it is.
RoundStartStep_KeepsPlant(st, timestamp, timer_str) ==
    IF is_round_start_timer(timer_str)
    THEN LET refined_start_time ==
                 calculate_round_start_timestamp(timestamp, timer_str)
             rs == IF st.current_round # None
                   THEN Append(st.rounds,
                               EndRound(Val(st.current_round),
                                        NextRoundEndTime(Val(st.current_round),
                                                         refined_start_time),
                                        "next_round_started"))
                   ELSE st.rounds
         IN  SweepState(rs,
                        Some(NewRound(NextRoundNumber(rs), refined_start_time,
                                      timestamp, timer_str)),
                        st.spike_plant_time,
                        st.consecutive_nothings, st.first_nothing_timestamp)
    ELSE st

\* Lines 167-198: round start.
RoundStartStep(st, timestamp, timer_str) ==
    IF is_round_start_timer(timer_str)
    THEN LET refined_start_time ==
                 calculate_round_start_timestamp(timestamp, timer_str)
             rs == IF st.current_round # None
                   THEN Append(st.rounds,
                               EndRound(Val(st.current_round),
                                        NextRoundEndTime(Val(st.current_round),
                                                         refined_start_time),
                                        "next_round_started"))
                   ELSE st.rounds
         IN  SweepState(rs,
                        Some(NewRound(NextRoundNumber(rs), refined_start_time,
                                      timestamp, timer_str)),
                        None,
                        st.consecutive_nothings, st.first_nothing_timestamp)
    ELSE st

\* Mutant: a cue marks the plant again although the round is marked.
SpikePlantStep_MarksAgain(st, timestamp, timer_str, has_red_triangle) ==
    LET is_spike_text == (timer_str = Some(SPIKE_PLANTED))
    IN  IF /\ st.current_round # None
           /\ (has_red_triangle \/ is_spike_text)
        THEN SweepState(st.rounds,
                        Some([Val(st.current_round) EXCEPT
                                 !.spike_planted = TRUE,
                                 !.spike_plant_timestamp = Some(timestamp)]),
                        Some(timestamp),
                        st.consecutive_nothings, st.first_nothing_timestamp)
        ELSE st

\* Mutant: the round is marked planted, the plant timestamp is not recorded.
SpikePlantStep_NoTimestamp(st, timestamp, timer_str, has_red_triangle) ==
    LET is_spike_text == (timer_str = Some(SPIKE_PLANTED))
    IN  IF /\ st.current_round # None
           /\ (has_red_triangle \/ is_spike_text)
           /\ ~Val(st.current_round).spike_planted
        THEN SweepState(st.rounds,
                        Some([Val(st.current_round) EXCEPT
                                 !.spike_planted = TRUE]),
                        Some(timestamp),
                        st.consecutive_nothings, st.first_nothing_timestamp)
        ELSE st

\* Lines 202-207: spike plant, by red triangle or by text.
SpikePlantStep(st, timestamp, timer_str, has_red_triangle) ==
    LET is_spike_text == (timer_str = Some(SPIKE_PLANTED))
    IN  IF /\ st.current_round # None
           /\ (has_red_triangle \/ is_spike_text)
           /\ ~Val(st.current_round).spike_planted
        THEN SweepState(st.rounds,
                        Some([Val(st.current_round) EXCEPT
                                 !.spike_planted = TRUE,
                                 !.spike_plant_timestamp = Some(timestamp)]),
                        Some(timestamp),
                        st.consecutive_nothings, st.first_nothing_timestamp)
        ELSE st

\* Mutant: the round ends 35 s before the plant instead of at the reading.
SpikeTimeoutEndTime_BeforePlant(spike_plant, timestamp) ==
    spike_plant - SPIKE_TIMEOUT_SECONDS

\* Line 215: where a round whose spike timer expired ends.
SpikeTimeoutEndTime(spike_plant, timestamp) == timestamp

\* Mutant: the round closed by the spike timeout stays the current round.
SpikeTimeoutStep_KeepsOpen(st, timestamp) ==
    IF /\ st.current_round # None
       /\ TruthyNum(st.spike_plant_time)
       /\ timestamp - Val(st.spike_plant_time) >= SPIKE_TIMEOUT_SECONDS
    THEN SweepState(
             Append(st.rounds,
                    EndRound(Val(st.current_round), timestamp,
                             "spike_timeout")),
             st.current_round, None,
             st.consecutive_nothings, st.first_nothing_timestamp)
    ELSE st

\* Lines 210-220: spike timer expired.
SpikeTimeoutStep(st, timestamp) ==
    IF /\ st.current_round # None
       /\ TruthyNum(st.spike_plant_time)
       /\ timestamp - Val(st.spike_plant_time) >= SPIKE_TIMEOUT_SECONDS
    THEN SweepState(
             Append(st.rounds,
                    EndRound(Val(st.current_round),
                             SpikeTimeoutEndTime(Val(st.spike_plant_time),
                                                 timestamp),
                             "spike_timeout")),
             None, None,
             st.consecutive_nothings, st.first_nothing_timestamp)
    ELSE st

\* Mutant: a "nothing" frame does not skip the rest of the iteration.
ProcessReading_NoContinue(st, reading) ==
    LET timestamp        == reading.timestamp
        has_red_triangle == ReadingRedTriangle(reading)
        timer_str        == EffectiveToken(st.consecutive_nothings,
                                           ReadingToken(reading))
        after_nothing    == IF timer_str = Some(NOTHING)
                            THEN NothingStep(st, timestamp)
                            ELSE ResetNothing(st)
    IN  SpikeTimeoutStep(
            SpikePlantStep(
                RoundStartStep(after_nothing, timestamp, timer_str),
                timestamp, timer_str, has_red_triangle),
            timestamp)

\* Lines 122-220: the body of the loop, for one reading.
ProcessReading(st, reading) ==
    LET timestamp        == reading.timestamp
        has_red_triangle == ReadingRedTriangle(reading)
        timer_str        == EffectiveToken(st.consecutive_nothings,
                                           ReadingToken(reading))
    IN  IF timer_str = Some(NOTHING)
        THEN NothingStep(st, timestamp)
        ELSE SpikeTimeoutStep(
                 SpikePlantStep(
                     RoundStartStep(ResetNothing(st), timestamp, timer_str),
                     timestamp, timer_str, has_red_triangle),
                 timestamp)

\* Mutant: the round still open ends at the first reading's timestamp.
CloseRemaining_FirstReading(st, readings) ==
    IF st.current_round # None
    THEN Append(st.rounds,
                EndRound(Val(st.current_round),
                         readings[1].timestamp,
                         "vod_ended"))
    ELSE st.rounds

\* Lines 223-229: the round still open after the last reading.
CloseRemaining(st, readings) ==
    IF st.current_round # None
    THEN Append(st.rounds,
                EndRound(Val(st.current_round),
                         readings[Len(readings)].timestamp,
                         "vod_ended"))
    ELSE st.rounds

\* Lines 233-234: duration, under "if round_data['end_timestamp']".
WithDuration(round) ==
    IF TruthyNum(round.end_timestamp)
    THEN [round EXCEPT !.duration =
              Some(Val(round.end_timestamp) - round.start_timestamp)]
    ELSE round

CalculateDurations(rs) == [k \in 1..Len(rs) |-> WithDuration(rs[k])]

RECURSIVE Sweep(_, _, _)
Sweep(st, readings, k) ==
    IF k > Len(readings) THEN st
    ELSE Sweep(ProcessReading(st, readings[k]), readings, k + 1)

\* detect_rounds as a function of its argument.
detect_rounds(readings) ==
    LET sorted == SortByTimestamp(readings)
    IN  CalculateDurations(
            CloseRemaining(Sweep(InitialSweepState, sorted, 1), sorted))

(***************************************************************************)
(* Inputs                                                                  *)
(***************************************************************************)
T_1_05 == <<"1", ":", "0", "5">>
T_0_50 == <<"0", ":", "5", "0">>
T_0_45 == <<"0", ":", "4", "5">>
T_0_10 == <<"0", ":", "1", "0">>

\* The longest reading list drawn from ReadingSet.
MaxLen == 4

\* Readings at three instants: 5 s apart (closer than the 10 s cut-over
\* buffer) and 35 s apart (the spike timeout).
ReadingSet ==
    {Reading(0, v) : v \in {PlainValue(Some(T_1_40)),
                            DictValue(Some(NOTHING), FALSE)}}
    \cup
    {Reading(5, v) : v \in {DictValue(Some(T_1_30), FALSE),
                            DictValue(Some(T_1_40), TRUE),
                            DictValue(Some(NOTHING), FALSE),
                            PlainValue(Some(SPIKE_PLANTED))}}
    \cup
    {Reading(40, v) : v \in {PlainValue(Some(T_1_40)),
                             PlainValue(Some(T_1_05)),
                             DictValue(Some(NOTHING), FALSE),
                             DictValue(None, FALSE)}}

BoundedInputs == UNION {[1..n -> ReadingSet] : n \in 0..MaxLen}

\* The scenarios of the specification's section 8.
CleanRoundScenario ==
    <<Reading(0, PlainValue(Some(NOTHING))),
      Reading(10, PlainValue(Some(T_1_39))),
      Reading(50, PlainValue(Some(T_0_50))),
      Reading(110, PlainValue(Some(NOTHING))),
      Reading(120, PlainValue(Some(NOTHING)))>>

SpikeTimeoutScenario ==
    <<Reading(0, PlainValue(Some(T_1_40))),
      Reading(10, PlainValue(Some(T_0_50))),
      Reading(20, DictValue(Some(T_0_45), TRUE)),
      Reading(60, PlainValue(Some(T_0_10)))>>

BackToBackScenario ==
    <<Reading(0, PlainValue(Some(T_1_40))),
      Reading(100, PlainValue(Some(T_1_39)))>>

ReplayScenario ==
    <<Reading(0, PlainValue(Some(T_1_40))),
      Reading(50, PlainValue(Some(NOTHING))),
      Reading(55, PlainValue(Some(NOTHING))),
      Reading(58, PlainValue(Some(T_1_05))),
      Reading(70, PlainValue(Some(NOTHING)))>>

\* The ends of the replay window, read after one "nothing".
T_0_30 == <<"0", ":", "3", "0">>
T_0_31 == <<"0", ":", "3", "1">>
T_1_29 == <<"1", ":", "2", "9">>

ReplayBoundary(timer) ==
    <<Reading(0, PlainValue(Some(T_1_40))),
      Reading(50, PlainValue(Some(NOTHING))),
      Reading(58, PlainValue(Some(timer))),
      Reading(70, PlainValue(Some(NOTHING)))>>

ReplayBoundaryInputs ==
    {ReplayBoundary(timer) : timer \in {T_0_30, T_0_31, T_1_29, T_1_30}}

\* Readings without any round-start token: garbage, a null token with a
\* visual cue, mid-round values, spike text, "nothing".
T_GARBAGE == <<"a", "b", "c">>

NoRoundStartScenario ==
    <<Reading(0, PlainValue(Some(T_GARBAGE))),
      Reading(10, DictValue(None, TRUE)),
      Reading(20, PlainValue(Some(T_0_50))),
      Reading(30, PlainValue(Some(SPIKE_PLANTED))),
      Reading(70, DictValue(Some(NOTHING), TRUE)),
      Reading(80, DictValue(Some(T_0_10), TRUE))>>

\* A token that is not M:SS but that parse_timer accepts, outside and inside
\* a run of "nothing".
T_1_5 == <<"1", ":", "5">>

LooseTimerScenario ==
    <<Reading(0, PlainValue(Some(T_1_40))),
      Reading(5, PlainValue(Some(T_1_5))),
      Reading(40, DictValue(Some(NOTHING), FALSE)),
      Reading(45, PlainValue(Some(T_1_5)))>>

\* The spike is planted in the reading at timestamp 0 that starts the round.
PlantAtZeroScenario ==
    <<Reading(0, DictValue(Some(T_1_40), TRUE)),
      Reading(40, PlainValue(Some(T_1_05))),
      Reading(80, PlainValue(Some(T_0_10)))>>

\* Three cues in one round: the red triangle, the spike text, the red
\* triangle again; the last reading comes 35 s after the first cue.
RepeatedCueScenario ==
    <<Reading(0, PlainValue(Some(T_1_40))),
      Reading(10, DictValue(Some(T_0_50), TRUE)),
      Reading(20, PlainValue(Some(SPIKE_PLANTED))),
      Reading(30, DictValue(Some(T_0_45), TRUE)),
      Reading(45, PlainValue(Some(T_0_10)))>>

\* "nothing" with the red triangle while the round is unmarked; a replayed
\* timer with the red triangle; "nothing" 35 s after the plant.
NothingWithCueScenario ==
    <<Reading(0, PlainValue(Some(T_1_40))),
      Reading(10, DictValue(Some(NOTHING), TRUE)),
      Reading(20, DictValue(Some(T_0_50), TRUE)),
      Reading(30, PlainValue(Some(T_1_40))),
      Reading(35, PlainValue(Some(SPIKE_PLANTED))),
      Reading(70, PlainValue(Some(NOTHING))),
      Reading(75, PlainValue(Some(T_0_10)))>>

\* Two "nothing" readings separated by a reading that is not treated as
\* "nothing", then a run of two.
InterruptedRun(timer_value) ==
    <<Reading(0, PlainValue(Some(T_1_40))),
      Reading(50, PlainValue(Some(NOTHING))),
      Reading(55, timer_value),
      Reading(60, PlainValue(Some(NOTHING))),
      Reading(65, PlainValue(Some(NOTHING)))>>

InterruptedRunInputs ==
    {InterruptedRun(v) : v \in {PlainValue(Some(T_0_10)),
                                PlainValue(Some(T_1_40)),
                                PlainValue(Some(SPIKE_PLANTED)),
                                PlainValue(Some(T_GARBAGE)),
                                DictValue(None, FALSE)}}

\* Round starts read in quick succession: each round is cut by the next
\* start before its own observed start, the first one 20 s before its plant.
EarlyCutScenario ==
    <<Reading(0, PlainValue(Some(T_1_40))),
      Reading(20, PlainValue(Some(SPIKE_PLANTED))),
      Reading(20, PlainValue(Some(T_1_30))),
      Reading(25, PlainValue(Some(T_1_35))),
      Reading(27, PlainValue(Some(SPIKE_PLANTED))),
      Reading(30, PlainValue(Some(T_1_30)))>>

ScenarioInputs ==
    {CleanRoundScenario, SpikeTimeoutScenario, BackToBackScenario,
     ReplayScenario, NoRoundStartScenario, LooseTimerScenario,
     PlantAtZeroScenario, RepeatedCueScenario, NothingWithCueScenario,
     EarlyCutScenario}
    \cup InterruptedRunInputs
    \cup ReplayBoundaryInputs

Inputs == BoundedInputs \cup ScenarioInputs

(***************************************************************************)
(* detect_rounds as a state machine                                        *)
(***************************************************************************)
\* No codec call and no report call is under way.
CodecIdle ==
    codec_seconds = None /\ codec_token = None /\ codec_parsed = None

ReportIdle == clips = None /\ printed = None

\* detect_rounds is not running: its locals do not exist.
DetectIdle ==
    /\ timer_readings = <<>>
    /\ sorted_readings = <<>>
    /\ i = 0
    /\ current_round = None
    /\ spike_plant_time = None
    /\ consecutive_nothings = 0
    /\ first_nothing_timestamp = None

CurrentSweepState ==
    SweepState(rounds, current_round, spike_plant_time,
               consecutive_nothings, first_nothing_timestamp)

\* Lines 111-117: the locals before the sort.
Init ==
    /\ timer_readings \in Inputs
    /\ sorted_readings = <<>>
    /\ i = 0
    /\ rounds = <<>>
    /\ current_round = None
    /\ spike_plant_time = None
    /\ consecutive_nothings = 0
    /\ first_nothing_timestamp = None
    /\ pc = "sort"
    /\ CodecIdle
    /\ ReportIdle

\* Line 120.
Sort ==
    /\ pc = "sort"
    /\ sorted_readings' = SortByTimestamp(timer_readings)
    /\ i' = 1
    /\ pc' = "loop"
    /\ UNCHANGED <<timer_readings, rounds, current_round, spike_plant_time,
                   consecutive_nothings, first_nothing_timestamp>>
    /\ UNCHANGED <<codec_vars, report_vars>>

\* Lines 122-220: one iteration of the loop.
Step ==
    /\ pc = "loop"
    /\ i <= Len(sorted_readings)
    /\ LET st == ProcessReading(CurrentSweepState, sorted_readings[i])
       IN  /\ rounds' = st.rounds
           /\ current_round' = st.current_round
           /\ spike_plant_time' = st.spike_plant_time
           /\ consecutive_nothings' = st.consecutive_nothings
           /\ first_nothing_timestamp' = st.first_nothing_timestamp
    /\ i' = i + 1
    /\ UNCHANGED <<timer_readings, sorted_readings, pc>>
    /\ UNCHANGED <<codec_vars, report_vars>>

\* Lines 222-236: the loop is over; close the open round, add the durations
\* and return.  current_round still names the dict appended last.
\* sorted_readings[-1] of an empty list raises IndexError.
Finish ==
    /\ pc = "loop"
    /\ i > Len(sorted_readings)
    /\ IF current_round # None /\ sorted_readings = <<>>
       THEN /\ pc' = "error"
            /\ UNCHANGED <<rounds, current_round>>
       ELSE /\ rounds' = CalculateDurations(
                             CloseRemaining(CurrentSweepState, sorted_readings))
            /\ current_round' = IF current_round # None
                                THEN Some(rounds'[Len(rounds')])
                                ELSE None
            /\ pc' = "done"
    /\ UNCHANGED <<timer_readings, sorted_readings, i, spike_plant_time,
                   consecutive_nothings, first_nothing_timestamp>>
    /\ UNCHANGED <<codec_vars, report_vars>>

Next == Sort \/ Step \/ Finish

Spec == Init /\ [][Next]_vars

(***************************************************************************)
(* The timer codec as a state machine: seconds_to_fmt(seconds) followed by *)
(* parse_timer of its result, or parse_timer of a given token.             *)
(***************************************************************************)
\* The largest number of seconds formatted.
MaxSeconds == 5999

\* The longest token built from TokenAlphabet.
MaxTokenLen == 4

TokenAlphabet == {"1", "5", ":", "a"}

BoundedTokens == UNION {[1..n -> TokenAlphabet] : n \in 0..MaxTokenLen}

T_1_005 == <<"1", ":", "0", "0", "5">>
T_SPACED == <<" ", "1", ":", "3", "0">>
T_SIGNED == <<"-", "1", ":", "3", "0">>
T_NO_COLON == <<"1", "4", "0">>

CodecTokens ==
    {None}
    \cup {Some(t) : t \in BoundedTokens}
    \cup {Some(NOTHING), Some(SPIKE_PLANTED), Some(T_GARBAGE), Some(T_1_40),
          Some(T_0_45), Some(T_1_005), Some(T_SPACED), Some(T_SIGNED),
          Some(T_NO_COLON)}

InitCodec ==
    /\ DetectIdle
    /\ rounds = <<>>
    /\ ReportIdle
    /\ codec_parsed = None
    /\ \/ /\ pc = "seconds_to_fmt"
          /\ codec_seconds \in {Some(n) : n \in 0..MaxSeconds}
          /\ codec_token = None
       \/ /\ pc = "parse_timer"
          /\ codec_seconds = None
          /\ codec_token \in CodecTokens

\* Lines 89-99.
Format ==
    /\ pc = "seconds_to_fmt"
    /\ codec_token' = IF codec_seconds = None
                      THEN None
                      ELSE Some(seconds_to_fmt(Val(codec_seconds)))
    /\ pc' = "parse_timer"
    /\ UNCHANGED <<detect_vars, report_vars, codec_seconds, codec_parsed>>

\* Lines 38-59.
Parse ==
    /\ pc = "parse_timer"
    /\ codec_parsed' = parse_timer(codec_token)
    /\ pc' = "codec_done"
    /\ UNCHANGED <<detect_vars, report_vars, codec_seconds, codec_token>>

NextCodec == Format \/ Parse

SpecCodec == InitCodec /\ [][NextCodec]_vars

\* C13: parse_timer(seconds_to_fmt(s)) == s for every integer s in 0..5999.
C13_CodecRoundTrip ==
    (pc = "codec_done" /\ codec_seconds # None) => codec_parsed = codec_seconds

\* C13 witness: 5999 is formatted as 99:59 and parsed back to 5999.
C13_Witness ==
    /\ pc = "codec_done"
    /\ codec_seconds = Some(5999)
    /\ codec_token = Some(<<"9", "9", ":", "5", "9">>)
    /\ codec_parsed = Some(5999)

\* The shape M:SS: digits, one colon, exactly two digits.
ShapeMSS(t) ==
    /\ Len(t) >= 4
    /\ t[Len(t) - 2] = ":"
    /\ \A k \in 1..Len(t) : k # Len(t) - 2 => IsDigit(t[k])

\* C14 (as claimed): parse_timer returns a number for the tokens of the
\* shape M:SS and null for every other token.
C14_ParseAcceptsExactlyMSS ==
    pc = "codec_done" =>
        (codec_parsed # None
             <=> (codec_token # None /\ ShapeMSS(Val(codec_token))))

(***************************************************************************)
(* The summary and the clip export                                         *)
(***************************************************************************)
\* f"{x:.1f}" of an int.
Fmt1f(x) == IntToStr(x) \o <<".", "0">>

Line(label, value, detail) ==
    [label |-> label, value |-> value, detail |-> detail]

\* Lines 281-288: the lines printed for one round.  ok is FALSE when a None
\* meets the format specification .1f (TypeError); the lines before it have
\* been printed by then.
RoundLines(round_data) ==
    LET head == <<Line("Round", IntToStr(round_data.round_number), None),
                  Line("Start", Fmt1f(round_data.start_timestamp),
                       round_data.start_timer)>>
        duration == IF round_data.duration = None
                    THEN 0
                    ELSE Val(round_data.duration)
    IN  IF round_data.end_timestamp = None
        THEN [lines |-> head, ok |-> FALSE]
        ELSE LET body == head \o
                     <<Line("End", Fmt1f(Val(round_data.end_timestamp)),
                            round_data.end_reason),
                       Line("Duration", Fmt1f(duration), None)>>
             IN  IF round_data.spike_planted
                 THEN IF round_data.spike_plant_timestamp = None
                      THEN [lines |-> body, ok |-> FALSE]
                      ELSE [lines |-> body \o
                                <<Line("Spike: Planted at",
                                       Fmt1f(Val(round_data.spike_plant_timestamp)),
                                       None)>>,
                            ok |-> TRUE]
                 ELSE [lines |-> body \o
                           <<Line("Spike: Not planted", <<>>, None)>>,
                       ok |-> TRUE]

RECURSIVE PrintRounds(_, _, _)
PrintRounds(rs, k, out) ==
    IF k > Len(rs) THEN [lines |-> out, ok |-> TRUE]
    ELSE LET r == RoundLines(rs[k])
         IN  IF r.ok
             THEN PrintRounds(rs, k + 1, out \o r.lines)
             ELSE [lines |-> out \o r.lines, ok |-> FALSE]

\* Lines 272-288: the header with the number of rounds, then every round.
print_round_summary(rs) ==
    PrintRounds(rs, 1,
                <<Line("ROUND DETECTION SUMMARY", IntToStr(Len(rs)), None)>>)

\* Lines 254-263: one clip; round_data.get('duration', 0).
Clip(round_data) ==
    [round_number   |-> round_data.round_number,
     start_time     |-> round_data.start_timestamp,
     start_time_fmt |-> round_data.start_time_fmt,
     end_time       |-> round_data.end_timestamp,
     end_time_fmt   |-> round_data.end_time_fmt,
     duration       |-> IF round_data.duration = None
                        THEN 0
                        ELSE Val(round_data.duration),
     spike_planted  |-> round_data.spike_planted]

\* Lines 244-270.
generate_round_clips(rs) == [k \in 1..Len(rs) |-> Clip(rs[k])]

\* The longest reading list whose rounds are summarised and exported.
ReportMaxLen == 2

ReportReadingSet == ReadingSet \cup {Reading(0, PlainValue(Some(T_1_30)))}

ReportInputs ==
    UNION {[1..n -> ReportReadingSet] : n \in 0..ReportMaxLen}

\* Round lists whose last round is still open, as rounds + [current_round]
\* is in the middle of a sweep.
OpenRoundLists ==
    LET closed == detect_rounds(CleanRoundScenario)
        open(n) == NewRound(n, 30, 40, Some(T_1_30))
        planted(n) == [open(n) EXCEPT !.spike_planted = TRUE,
                                      !.spike_plant_timestamp = Some(45)]
    IN  {<<open(1)>>, <<planted(1)>>,
         Append(closed, open(Len(closed) + 1)),
         Append(closed, planted(Len(closed) + 1))}

\* main, lines 321-322: the rounds come from detect_rounds; or either
\* method is called with a list that holds an open round.
InitReport ==
    /\ sorted_readings = <<>>
    /\ i = 0
    /\ current_round = None
    /\ spike_plant_time = None
    /\ consecutive_nothings = 0
    /\ first_nothing_timestamp = None
    /\ CodecIdle
    /\ ReportIdle
    /\ \/ /\ timer_readings \in ReportInputs
          /\ rounds = detect_rounds(timer_readings)
       \/ /\ timer_readings = <<>>
          /\ rounds \in OpenRoundLists
    /\ pc \in {"print_round_summary", "generate_round_clips"}

\* Line 325, lines 272-288.
PrintSummary ==
    /\ pc = "print_round_summary"
    /\ LET out == print_round_summary(rounds)
       IN  /\ printed' = Some(out.lines)
           /\ pc' = IF out.ok THEN "generate_round_clips" ELSE "error"
    /\ UNCHANGED <<detect_vars, codec_vars, clips>>

\* Line 336, lines 244-270.
GenerateClips ==
    /\ pc = "generate_round_clips"
    /\ clips' = Some(generate_round_clips(rounds))
    /\ pc' = "report_done"
    /\ UNCHANGED <<detect_vars, codec_vars, printed>>

NextReport == PrintSummary \/ GenerateClips

SpecReport == InitReport /\ [][NextReport]_vars

(***************************************************************************)
(* Properties of the returned rounds                                       *)
(***************************************************************************)
Returned == pc = "done"

EndReasons ==
    {"next_round_started", "timer_disappeared", "spike_timeout", "vod_ended"}

HasReason(round, reason) == round.end_reason = Some(reason)

Consecutive == 1..(Len(rounds) - 1)

\* C1: every round of the result has end_timestamp >= start_timestamp,
\* whichever of the four rules closed it.
C1_EndNotBeforeStart ==
    \A k \in 1..Len(rounds) :
        Val(rounds[k].end_timestamp) >= rounds[k].start_timestamp

\* C1 witness: a round cut by the next round's start, where the 10 s buffer
\* alone would have put its end before its start, next to a round closed by
\* the spike timeout and one closed at the end of the readings.
C1_Witness ==
    /\ Returned
    /\ Len(rounds) = 3
    /\ HasReason(rounds[1], "next_round_started")
    /\ rounds[2].start_timestamp - ROUND_END_BUFFER_SECONDS
           < rounds[1].start_timestamp
    /\ HasReason(rounds[2], "spike_timeout")
    /\ HasReason(rounds[3], "vod_ended")

\* C2 (as claimed): every returned round carries duration ==
\* end_timestamp - start_timestamp, also when end_timestamp is 0.
C2_DurationOnEveryRound ==
    Returned =>
        \A k \in 1..Len(rounds) :
            rounds[k].duration =
                Some(Val(rounds[k].end_timestamp) - rounds[k].start_timestamp)

\* The rounds created so far: the open round, if any, is the newest.
RoundsCreated ==
    IF pc = "loop" /\ current_round # None
    THEN Val(current_round).round_number
    ELSE Len(rounds)

\* C3: every round of the result list is closed (end_timestamp set,
\* end_reason one of the four reasons), and at every step of the sweep at
\* most one round is created and not yet in the list.
C3_ReturnedRoundsClosed ==
    /\ \A k \in 1..Len(rounds) :
           /\ rounds[k].end_timestamp # None
           /\ rounds[k].end_reason # None
           /\ Val(rounds[k].end_reason) \in EndReasons
    /\ RoundsCreated - Len(rounds) \in {0, 1}
    /\ (pc = "loop" /\ current_round # None) =>
           /\ Val(current_round).end_timestamp = None
           /\ Val(current_round).end_reason = None

\* C3 witness: during the sweep, one round is open while two are closed.
C3_Witness ==
    /\ pc = "loop"
    /\ current_round # None
    /\ Len(rounds) = 2
    /\ HasReason(rounds[1], "timer_disappeared")
       \/ HasReason(rounds[2], "spike_timeout")

Permuted(s, p) == [k \in 1..Len(s) |-> s[p[k]]]

DistinctTimestamps(s) ==
    \A a, b \in 1..Len(s) : a # b => s[a].timestamp # s[b].timestamp

\* C4 (as claimed): the result is the same for every permutation of the
\* input, also when several readings share a timestamp.
C4_OrderIndependent ==
    Returned =>
        \A p \in Permutations(1..Len(timer_readings)) :
            detect_rounds(Permuted(timer_readings, p)) = rounds

\* C4 (amended): the result is the same for every permutation of an input
\* whose timestamps are pairwise distinct.
C4_OrderIndependentDistinct ==
    (Returned /\ DistinctTimestamps(timer_readings)) =>
        \A p \in Permutations(1..Len(timer_readings)) :
            detect_rounds(Permuted(timer_readings, p)) = rounds

\* C4 witness: an input of three readings with distinct timestamps that
\* arrives out of order and yields a round.
C4_Witness ==
    /\ Returned
    /\ DistinctTimestamps(timer_readings)
    /\ Len(timer_readings) >= 3
    /\ timer_readings # sorted_readings
    /\ Len(rounds) >= 1

\* C5 (as claimed): a round's start_timestamp is strictly less than the next
\* round's observed_start_timestamp, also with duplicate timestamps.
C5_StartStrictlyBeforeNextObserved ==
    Returned =>
        \A k \in Consecutive :
            rounds[k].start_timestamp < rounds[k + 1].observed_start_timestamp

\* C5 (amended): a round's start_timestamp is less than or equal to the next
\* round's observed_start_timestamp, and strictly less when the two rounds
\* were triggered at different timestamps.
C5_StartNotAfterNextObserved ==
    Returned =>
        \A k \in Consecutive :
            /\ rounds[k].start_timestamp
                   <= rounds[k + 1].observed_start_timestamp
            /\ rounds[k].observed_start_timestamp
                   # rounds[k + 1].observed_start_timestamp
               => rounds[k].start_timestamp
                      < rounds[k + 1].observed_start_timestamp

\* C5 witness: two rounds triggered at the same timestamp, the first one
\* unrefined, so that its start equals the trigger of the second.
C5_Witness ==
    /\ Returned
    /\ \E k \in Consecutive :
           rounds[k].start_timestamp = rounds[k + 1].observed_start_timestamp

\* C6 (as claimed): the refined start_timestamps of the result are in
\* non-decreasing order.
C6_ChronologicalByStart ==
    Returned =>
        \A k \in Consecutive :
            rounds[k].start_timestamp <= rounds[k + 1].start_timestamp

\* The largest refinement: a round-start token reads 1:30 at the least.
MaxRefinement ==
    STANDARD_ROUND_DURATION_SECONDS - Val(parse_timer(Some(T_1_30)))

\* C6 (amended): the result is chronological by observed_start_timestamp;
\* a round's refined start_timestamp can precede that of the round before
\* it, by no more than the largest refinement (10 s).
C6_ChronologicalByObservedStart ==
    Returned =>
        \A k \in Consecutive :
            /\ rounds[k].observed_start_timestamp
                   <= rounds[k + 1].observed_start_timestamp
            /\ rounds[k].start_timestamp
                   <= rounds[k + 1].start_timestamp + MaxRefinement

\* C6 witness: a round whose refined start precedes the refined start of
\* the round before it, although it was triggered later.
C6_Witness ==
    /\ Returned
    /\ \E k \in Consecutive :
           /\ rounds[k].start_timestamp > rounds[k + 1].start_timestamp
           /\ rounds[k].observed_start_timestamp
                  < rounds[k + 1].observed_start_timestamp

\* C7: the k-th round of the result has round_number k.
C7_RoundNumbers ==
    \A k \in 1..Len(rounds) : rounds[k].round_number = k

\* C7 witness: a result of four rounds, and one of two rounds whose first
\* round was closed because the timer disappeared.
C7_Witness ==
    /\ Returned
    /\ \/ Len(rounds) = 4
       \/ /\ Len(rounds) = 2
          /\ HasReason(rounds[1], "timer_disappeared")
          /\ HasReason(rounds[2], "vod_ended")

\* C8: a round ends no later than the reading that triggered the next round,
\* so two rounds overlap by no more than the later round's refinement.
C8_NoOverlapBeyondRefinement ==
    \A k \in Consecutive :
        Val(rounds[k].end_timestamp)
            <= rounds[k + 1].observed_start_timestamp

\* C8 witness: two consecutive rounds that do overlap, the later round's
\* refined start lying before the earlier round's end.
C8_Witness ==
    /\ Returned
    /\ \E k \in Consecutive :
           /\ Val(rounds[k].end_timestamp) > rounds[k + 1].start_timestamp
           /\ ~HasReason(rounds[k], "next_round_started")

\* C9 (as claimed): the spike timeout scenario gives one round, planted at
\* 20 and closed by spike_timeout at 20 + 35 = 55.
C9_SpikeTimeoutAtPlantPlus35 ==
    (Returned /\ timer_readings = SpikeTimeoutScenario) =>
        /\ Len(rounds) = 1
        /\ rounds[1].spike_planted
        /\ rounds[1].spike_plant_timestamp = Some(20)
        /\ HasReason(rounds[1], "spike_timeout")
        /\ rounds[1].end_timestamp = Some(20 + SPIKE_TIMEOUT_SECONDS)

\* The iteration under way closes a round because the timer disappeared.
ClosesDisappeared ==
    /\ pc = "loop"
    /\ Len(rounds') = Len(rounds) + 1
    /\ HasReason(rounds'[Len(rounds')], "timer_disappeared")

\* C10: a round is closed as timer_disappeared by the second consecutive
\* "nothing" reading and ends at the timestamp of the first one; a single
\* "nothing" closes nothing; the clean-round scenario gives one round,
\* started by 1:39 at 9 and ended at 110.
C10_DisappearanceClosure ==
    /\ [][ClosesDisappeared =>
              /\ consecutive_nothings = 1
              /\ consecutive_nothings' = ROUND_END_NOTHING_THRESHOLD
              /\ i >= 2
              /\ first_nothing_timestamp = Some(sorted_readings[i - 1].timestamp)
              /\ rounds'[Len(rounds')].end_timestamp = first_nothing_timestamp
          ]_vars
    /\ []((Returned /\ timer_readings = CleanRoundScenario) =>
              /\ Len(rounds) = 1
              /\ rounds[1].start_timer = Some(T_1_39)
              /\ rounds[1].start_timestamp = 9
              /\ rounds[1].end_timestamp = Some(110)
              /\ HasReason(rounds[1], "timer_disappeared"))

\* C10 witness: a round closed as timer_disappeared whose end lies before
\* the reading that confirmed the disappearance.
C10_Witness ==
    /\ pc = "loop"
    /\ i >= 2
    /\ current_round = None
    /\ consecutive_nothings = ROUND_END_NOTHING_THRESHOLD
    /\ Len(rounds) >= 1
    /\ HasReason(rounds[Len(rounds)], "timer_disappeared")
    /\ Val(rounds[Len(rounds)].end_timestamp) < sorted_readings[i - 1].timestamp

(***************************************************************************)
(* Properties of one iteration of the sweep                                *)
(***************************************************************************)
\* The loop is about to process sorted_readings[i].
AtReading == pc = "loop" /\ i <= Len(sorted_readings)

ThisReading == sorted_readings[i]

ThisToken == ReadingToken(ThisReading)

\* A round-start token is read while a round is open.
CutoverStep ==
    /\ AtReading
    /\ current_round # None
    /\ is_round_start_timer(ThisToken)

\* C11: a round-start token read while a round is open closes that round
\* with next_round_started at max(its start, new refined start - 10) and
\* opens a round at the new refined start; [(0,"1:40"),(100,"1:39")] gives
\* round 1 ending at 89 and round 2 starting at 99.
C11_NextRoundCutover ==
    /\ [][CutoverStep =>
              LET old     == Val(current_round)
                  refined == ThisReading.timestamp
                                 - (STANDARD_ROUND_DURATION_SECONDS
                                        - Val(parse_timer(ThisToken)))
                  closed  == rounds'[Len(rounds')]
              IN  /\ Len(rounds') = Len(rounds) + 1
                  /\ closed.round_number = old.round_number
                  /\ closed.start_timestamp = old.start_timestamp
                  /\ HasReason(closed, "next_round_started")
                  /\ closed.end_timestamp =
                         Some(Max(old.start_timestamp,
                                  refined - ROUND_END_BUFFER_SECONDS))
                  /\ current_round' # None
                  /\ Val(current_round').round_number = old.round_number + 1
                  /\ Val(current_round').start_timestamp = refined
                  /\ Val(current_round').end_timestamp = None
          ]_vars
    /\ []((Returned /\ timer_readings = BackToBackScenario) =>
              /\ Len(rounds) = 2
              /\ HasReason(rounds[1], "next_round_started")
              /\ rounds[1].end_timestamp = Some(89)
              /\ rounds[2].start_timestamp = 99)

\* C11 witness: a cut-over that left the buffer between the two rounds, the
\* closed round ending after its start and 10 s before the open one starts.
C11_Witness ==
    /\ pc = "loop"
    /\ current_round # None
    /\ Len(rounds) >= 1
    /\ HasReason(rounds[Len(rounds)], "next_round_started")
    /\ Val(rounds[Len(rounds)].end_timestamp)
           > rounds[Len(rounds)].start_timestamp
    /\ Val(current_round).start_timestamp =
           Val(rounds[Len(rounds)].end_timestamp) + ROUND_END_BUFFER_SECONDS

InReplayWindow(timer_str) ==
    /\ parse_timer(timer_str) # None
    /\ REPLAY_LOW <= Val(parse_timer(timer_str))
    /\ Val(parse_timer(timer_str)) <= REPLAY_HIGH

\* A token other than "nothing" is read during a "nothing" run.
TimerDuringNothingRun ==
    /\ AtReading
    /\ consecutive_nothings > 0
    /\ ThisToken # Some(NOTHING)

\* C12: during a "nothing" run a token that parses to 31..89 (0:31 and 1:29
\* included) is processed as "nothing": the run counter goes up by one, the
\* run's first timestamp stays, an open round is closed as timer_disappeared
\* once the counter reaches the threshold and is otherwise left as it is, and
\* no round is opened; a token outside the window (0:30, 1:30) resets the
\* run.  The replay scenario gives one round, closed timer_disappeared at 50.
C12_ReplaySuppression ==
    /\ [][(TimerDuringNothingRun /\ InReplayWindow(ThisToken)) =>
              /\ consecutive_nothings' = consecutive_nothings + 1
              /\ first_nothing_timestamp' = first_nothing_timestamp
              /\ IF /\ current_round # None
                    /\ consecutive_nothings + 1 >= ROUND_END_NOTHING_THRESHOLD
                 THEN /\ Len(rounds') = Len(rounds) + 1
                      /\ HasReason(rounds'[Len(rounds')], "timer_disappeared")
                      /\ rounds'[Len(rounds')].end_timestamp
                             = first_nothing_timestamp
                      /\ rounds'[Len(rounds')].round_number
                             = Val(current_round).round_number
                      /\ current_round' = None
                 ELSE /\ rounds' = rounds
                      /\ current_round' = current_round
                      /\ spike_plant_time' = spike_plant_time
          ]_vars
    /\ [][(TimerDuringNothingRun /\ ~InReplayWindow(ThisToken)) =>
              /\ consecutive_nothings' = 0
              /\ first_nothing_timestamp' = None
          ]_vars
    /\ []((Returned /\ timer_readings = ReplayScenario) =>
              /\ Len(rounds) = 1
              /\ HasReason(rounds[1], "timer_disappeared")
              /\ rounds[1].end_timestamp = Some(50))

\* C12 witness: 1:29, the upper end of the window, read after one "nothing"
\* while a round was open, has closed the round at the first "nothing".
C12_Witness ==
    /\ pc = "loop"
    /\ i >= 2
    /\ ReadingToken(sorted_readings[i - 1]) = Some(T_1_29)
    /\ consecutive_nothings = ROUND_END_NOTHING_THRESHOLD
    /\ current_round = None
    /\ Len(rounds) = 1
    /\ HasReason(rounds[1], "timer_disappeared")
    /\ first_nothing_timestamp = rounds[1].end_timestamp

StartTokens == {Some(ROUND_START_TIMES[k]) : k \in 1..Len(ROUND_START_TIMES)}

HasRoundStart(readings) ==
    \E k \in 1..Len(readings) : ReadingToken(readings[k]) \in StartTokens

\* C15: detect_rounds reaches no error state, and a reading set without a
\* round-start token, the empty one included, returns no round.
C15_NoErrorNoRounds ==
    /\ pc # "error"
    /\ (Returned /\ ~HasRoundStart(timer_readings)) => rounds = <<>>

\* C15 witness: garbage, null with a visual cue, mid-round values, spike
\* text and "nothing" have been swept and no round is returned.
C15_Witness ==
    /\ Returned
    /\ timer_readings = NoRoundStartScenario
    /\ i = Len(timer_readings) + 1
    /\ rounds = <<>>

\* The round closed by the iteration under way, if it closes one.
ClosedNow == rounds'[Len(rounds')]

ClosesBySpikeTimeout ==
    /\ current_round # None
    /\ spike_plant_time # None
    /\ ThisReading.timestamp - Val(spike_plant_time) >= SPIKE_TIMEOUT_SECONDS
    /\ Len(rounds') = Len(rounds) + 1
    /\ SubSeq(rounds', 1, Len(rounds)) = rounds
    /\ ClosedNow.round_number = Val(current_round).round_number
    /\ HasReason(ClosedNow, "spike_timeout")
    /\ current_round' = None

SameRound(a, b) ==
    /\ a.round_number = b.round_number
    /\ a.start_timestamp = b.start_timestamp
    /\ a.end_timestamp = b.end_timestamp
    /\ a.end_reason = b.end_reason
    /\ a.spike_planted = b.spike_planted
    /\ a.spike_plant_timestamp = b.spike_plant_timestamp

\* C17: a round in the result list is never changed by a later step
\* (start_timestamp, end_timestamp, end_reason, spike_planted and
\* spike_plant_timestamp stay), and no round is in the list twice.
C17_ClosedOnceImmutable ==
    /\ [][\A k \in 1..Len(rounds) :
              /\ k <= Len(rounds')
              /\ SameRound(rounds[k], rounds'[k])]_vars
    /\ [](\A j, k \in 1..Len(rounds) :
              j # k => rounds[j].round_number # rounds[k].round_number)

\* C17 witness: a round closed by the spike timeout is in the result; the
\* sweep went on, opened another round and returned both.
C17_Witness ==
    /\ Returned
    /\ Len(rounds) = 2
    /\ HasReason(rounds[1], "spike_timeout")
    /\ rounds[1].spike_planted
    /\ HasReason(rounds[2], "vod_ended")

\* The iteration under way marks the spike plant of the round open after it.
MarksPlant ==
    /\ AtReading
    /\ current_round' # None
    /\ Val(current_round').spike_planted
    /\ \/ current_round = None
       \/ ~Val(current_round).spike_planted
       \/ Val(current_round).round_number # Val(current_round').round_number

\* C18: the token of a dict timer_value is its 'timer', its visual cue is
\* its 'red_triangle'; a plain timer_value is the token and has no visual
\* cue, so that it marks a spike plant only as "spike planted".
C18_InputDecoding ==
    [][/\ MarksPlant =>
              /\ Val(current_round').spike_plant_timestamp
                     = Some(ThisReading.timestamp)
              /\ IF ThisReading.timer_value.isdict
                 THEN \/ ThisReading.timer_value.red_triangle
                      \/ ThisReading.timer_value.timer = Some(SPIKE_PLANTED)
                 ELSE ThisReading.timer_value.value = Some(SPIKE_PLANTED)
       /\ (/\ AtReading
           /\ ThisReading.timer_value.isdict
           /\ ThisReading.timer_value.timer \in StartTokens)
          => /\ current_round' # None
             /\ Val(current_round').start_timer
                    = ThisReading.timer_value.timer
             /\ Val(current_round').spike_planted
                    = ThisReading.timer_value.red_triangle
       /\ (/\ AtReading
           /\ ~ThisReading.timer_value.isdict
           /\ ThisReading.timer_value.value \in StartTokens)
          => /\ current_round' # None
             /\ Val(current_round').start_timer
                    = ThisReading.timer_value.value
             /\ ~Val(current_round').spike_planted
      ]_vars

\* C18 witness: the plain string "spike planted" has marked the plant of
\* the open round, at its own timestamp.
C18_Witness ==
    /\ pc = "loop"
    /\ i >= 2
    /\ sorted_readings[i - 1].timer_value = PlainValue(Some(SPIKE_PLANTED))
    /\ current_round # None
    /\ Val(current_round).spike_planted
    /\ Val(current_round).spike_plant_timestamp
           = Some(sorted_readings[i - 1].timestamp)
    /\ Val(current_round).observed_start_timestamp
           < sorted_readings[i - 1].timestamp

(***************************************************************************)
(* Properties of the summary and the clip export                           *)
(***************************************************************************)
Exported == pc = "report_done" /\ clips # None

FromDetectRounds == rounds = detect_rounds(timer_readings)

ClipMatchesRound(clip, round) ==
    /\ clip.round_number = round.round_number
    /\ clip.start_time = round.start_timestamp
    /\ clip.end_time = round.end_timestamp
    /\ clip.spike_planted = round.spike_planted

\* Every clip carries its round's number, start, end and spike flag, in the
\* order of the rounds.
ClipsMatchRounds ==
    (Exported /\ FromDetectRounds) =>
        /\ Len(Val(clips)) = Len(rounds)
        /\ \A k \in 1..Len(rounds) : ClipMatchesRound(Val(clips)[k], rounds[k])

\* C19: generate_round_clips on the result of detect_rounds returns one
\* clip per round, in order, with the round's number, start, end and spike
\* flag, and every clip's duration is its end_time minus its start_time.
C19_ClipProjection ==
    (Exported /\ FromDetectRounds) =>
        /\ Len(Val(clips)) = Len(rounds)
        /\ \A k \in 1..Len(rounds) :
               LET clip == Val(clips)[k]
               IN  /\ ClipMatchesRound(clip, rounds[k])
                   /\ clip.end_time # None
                   /\ clip.duration = Val(clip.end_time) - clip.start_time

IsOpenRound(round) ==
    /\ round.end_timestamp = None
    /\ round.end_reason = None
    /\ round.duration = None

\* C20: neither generate_round_clips nor print_round_summary reaches an
\* error state on a round list that holds an open round (end_timestamp and
\* end_reason null, duration absent).
C20_ToleratesOpenRound ==
    (\E k \in 1..Len(rounds) : IsOpenRound(rounds[k])) => pc # "error"

(***************************************************************************)
(* Properties of the start, spike and end rules                            *)
(***************************************************************************)
\* C21: every returned round starts at its observed timestamp minus
\* max(0, 100 - parse_timer(start_timer)); its start_timer is one of the
\* eleven tokens 1:30..1:40, so the refinement lies in 0..10.
C21_StartRefinement ==
    Returned =>
        \A k \in 1..Len(rounds) :
            LET round == rounds[k]
                refinement == round.observed_start_timestamp
                                  - round.start_timestamp
            IN  /\ round.start_timer \in StartTokens
                /\ Cardinality(StartTokens) = 11
                /\ parse_timer(round.start_timer) # None
                /\ round.start_timestamp
                       = round.observed_start_timestamp
                             - Max(0, STANDARD_ROUND_DURATION_SECONDS
                                          - Val(parse_timer(round.start_timer)))
                /\ 0 <= refinement
                /\ refinement <= 10

\* C21 witness: a round read at 1:30 (refined by 10 s) and a round read at
\* 1:40 (not refined) are returned together.
C21_Witness ==
    /\ Returned
    /\ \E j, k \in 1..Len(rounds) :
           /\ rounds[j].start_timer = Some(T_1_30)
           /\ rounds[j].observed_start_timestamp - rounds[j].start_timestamp = 10
           /\ rounds[k].start_timer = Some(T_1_40)
           /\ rounds[k].observed_start_timestamp = rounds[k].start_timestamp

\* A reading that is not treated as "nothing" and is no round-start token
\* is read while the open round's plant lies 35 s or more back.
PlantExpiredStep ==
    /\ AtReading
    /\ current_round # None
    /\ Val(current_round).spike_planted
    /\ EffectiveToken(consecutive_nothings, ThisToken) # Some(NOTHING)
    /\ ThisToken \notin StartTokens
    /\ ThisReading.timestamp
           - Val(Val(current_round).spike_plant_timestamp)
       >= SPIKE_TIMEOUT_SECONDS

ClosedBySpikeTimeoutHere ==
    /\ Len(rounds') = Len(rounds) + 1
    /\ ClosedNow.round_number = Val(current_round).round_number
    /\ ClosedNow.end_timestamp = Some(ThisReading.timestamp)
    /\ HasReason(ClosedNow, "spike_timeout")
    /\ current_round' = None
    /\ spike_plant_time' = None

\* C22: for every plant timestamp p >= 0, p = 0 included, a reading at t
\* with t - p >= 35 that is not treated as "nothing" and is no round-start
\* token closes the open round at t as spike_timeout and clears the active
\* plant timestamp.
C22_SpikeTimeoutEveryPlant ==
    [][PlantExpiredStep => ClosedBySpikeTimeoutHere]_vars

\* The same closure for the plants made after timestamp 0.
SpikeTimeoutLaterPlant ==
    [][(/\ PlantExpiredStep
        /\ Val(current_round).spike_plant_timestamp # Some(0))
       => ClosedBySpikeTimeoutHere]_vars

TreatedAsNothing ==
    EffectiveToken(consecutive_nothings, ThisToken) = Some(NOTHING)

HasCue ==
    ReadingRedTriangle(ThisReading) \/ ThisToken = Some(SPIKE_PLANTED)

\* The round that was open before the iteration under way, as it is after
\* it: still the current round, or the round appended by the iteration.
OpenRoundAfter ==
    IF Len(rounds') > Len(rounds)
    THEN rounds'[Len(rounds) + 1]
    ELSE Val(current_round')

\* C23: the first reading with a cue (red triangle or "spike planted") that
\* is processed, not as "nothing", while a round is open and unmarked marks
\* it planted at the reading's timestamp; a marked round keeps its
\* spike_plant_timestamp whatever is read later; a cue read while no round
\* is open marks nothing.
C23_PlantMarkedOnce ==
    [][/\ (/\ AtReading /\ ~TreatedAsNothing /\ HasCue
           /\ \/ ThisToken \in StartTokens
              \/ current_round # None /\ ~Val(current_round).spike_planted)
          => /\ current_round' # None
             /\ Val(current_round').spike_planted
             /\ Val(current_round').spike_plant_timestamp
                    = Some(ThisReading.timestamp)
             /\ spike_plant_time' = Some(ThisReading.timestamp)
       /\ (/\ AtReading
           /\ current_round # None /\ Val(current_round).spike_planted)
          => /\ OpenRoundAfter.round_number = Val(current_round).round_number
             /\ OpenRoundAfter.spike_planted
             /\ OpenRoundAfter.spike_plant_timestamp
                    = Val(current_round).spike_plant_timestamp
       /\ (/\ AtReading /\ HasCue
           /\ current_round = None /\ ThisToken \notin StartTokens)
          => /\ current_round' = None
             /\ rounds' = rounds
             /\ spike_plant_time' = spike_plant_time
      ]_vars

\* C23 witness: a round marked at its first cue has seen two later cues at
\* later timestamps and still carries the first cue's timestamp.
C23_Witness ==
    /\ pc = "loop"
    /\ i >= 5
    /\ current_round # None
    /\ Val(current_round).spike_planted
    /\ \E j \in 1..(i - 3) :
           /\ Val(current_round).spike_plant_timestamp
                  = Some(sorted_readings[j].timestamp)
           /\ Val(current_round).observed_start_timestamp
                  < sorted_readings[j].timestamp
           /\ \A k \in (j + 1)..(j + 2) :
                  /\ sorted_readings[k].timestamp > sorted_readings[j].timestamp
                  /\ \/ ReadingRedTriangle(sorted_readings[k])
                     \/ ReadingToken(sorted_readings[k]) = Some(SPIKE_PLANTED)

\* C24: a reading treated as "nothing", literal or suppressed as a replay,
\* opens no round, marks no plant even with the red triangle, and closes no
\* round as spike_timeout even 35 s after the plant: it adds one to the run
\* counter and either leaves rounds, current round and plant as they are or
\* closes the open round as timer_disappeared.
C24_NothingSkipsChecks ==
    [][(AtReading /\ TreatedAsNothing)
       => /\ consecutive_nothings' = consecutive_nothings + 1
          /\ \/ /\ rounds' = rounds
                /\ current_round' = current_round
                /\ spike_plant_time' = spike_plant_time
             \/ /\ current_round # None
                /\ Len(rounds') = Len(rounds) + 1
                /\ rounds' = Append(rounds, ClosedNow)
                /\ HasReason(ClosedNow, "timer_disappeared")
                /\ ClosedNow.round_number = Val(current_round).round_number
                /\ ClosedNow.spike_planted = Val(current_round).spike_planted
                /\ ClosedNow.spike_plant_timestamp
                       = Val(current_round).spike_plant_timestamp
                /\ current_round' = None
      ]_vars

\* C24 witness: "nothing" has been read 35 s after the plant and the round
\* is still open; before that a "nothing" and a replayed timer, both with
\* the red triangle, were read and left a round unmarked.
C24_Witness ==
    /\ pc = "loop"
    /\ i >= 2
    /\ ReadingToken(sorted_readings[i - 1]) = Some(NOTHING)
    /\ current_round # None
    /\ Val(current_round).spike_planted
    /\ sorted_readings[i - 1].timestamp
           - Val(Val(current_round).spike_plant_timestamp)
       >= SPIKE_TIMEOUT_SECONDS
    /\ Len(rounds) >= 1
    /\ ~rounds[1].spike_planted
    /\ \E k \in 1..(i - 1) :
           /\ ReadingRedTriangle(sorted_readings[k])
           /\ ReadingToken(sorted_readings[k]) = Some(NOTHING)
           /\ sorted_readings[k].timestamp > rounds[1].observed_start_timestamp
           /\ sorted_readings[k].timestamp <= Val(rounds[1].end_timestamp)

\* C25: a reading not treated as "nothing" resets the run counter to 0 and
\* clears the run's start; the first "nothing" after it starts a new run at
\* its own timestamp and closes nothing; the run under way is made of the
\* readings just swept and starts at the first of them; and a
\* timer_disappeared closure ends the round at the start of that run.
C25_RunResetByOtherReading ==
    /\ [][/\ (AtReading /\ ~TreatedAsNothing)
             => /\ consecutive_nothings' = 0
                /\ first_nothing_timestamp' = None
          /\ (AtReading /\ TreatedAsNothing /\ consecutive_nothings = 0)
             => /\ consecutive_nothings' = 1
                /\ first_nothing_timestamp' = Some(ThisReading.timestamp)
                /\ rounds' = rounds
                /\ current_round' = current_round
          /\ ClosesDisappeared
             => /\ consecutive_nothings >= 1
                /\ ClosedNow.end_timestamp = first_nothing_timestamp
         ]_vars
    /\ []((pc = "loop" /\ consecutive_nothings > 0)
          => /\ consecutive_nothings <= i - 1
             /\ first_nothing_timestamp
                    = Some(sorted_readings[i - consecutive_nothings].timestamp)
             /\ \A k \in (i - consecutive_nothings)..(i - 1) :
                    \/ ReadingToken(sorted_readings[k]) = Some(NOTHING)
                    \/ InReplayWindow(ReadingToken(sorted_readings[k])))

\* C25 witness: "nothing", another reading, "nothing", "nothing" were read
\* while a round was open; the round is returned as timer_disappeared and
\* ends at the third of them, not at the first.
C25_Witness ==
    /\ Returned
    /\ \E k \in 1..Len(rounds), a \in 1..(Len(sorted_readings) - 3) :
           /\ HasReason(rounds[k], "timer_disappeared")
           /\ ReadingToken(sorted_readings[a]) = Some(NOTHING)
           /\ sorted_readings[a].timestamp > rounds[k].observed_start_timestamp
           /\ ReadingToken(sorted_readings[a + 1]) # Some(NOTHING)
           /\ ~InReplayWindow(ReadingToken(sorted_readings[a + 1]))
           /\ ReadingToken(sorted_readings[a + 1]) \notin StartTokens
           /\ ReadingToken(sorted_readings[a + 2]) = Some(NOTHING)
           /\ ReadingToken(sorted_readings[a + 3]) = Some(NOTHING)
           /\ sorted_readings[a + 2].timestamp > sorted_readings[a].timestamp
           /\ rounds[k].end_timestamp = Some(sorted_readings[a + 2].timestamp)

\* C26: a round-start token (1:30..1:40) opens a round at the reading's
\* timestamp even during a "nothing" run; a token that parses to less than
\* 31 or more than 89, "spike planted" and a token that does not parse are
\* not turned into "nothing" either: they end the run.
C26_StartsNeverSuppressed ==
    [][/\ (AtReading /\ ThisToken \in StartTokens)
          => /\ current_round' # None
             /\ Val(current_round').observed_start_timestamp
                    = ThisReading.timestamp
             /\ Val(current_round').start_timer = ThisToken
             /\ Val(current_round').round_number = RoundsCreated + 1
             /\ consecutive_nothings' = 0
       /\ (/\ AtReading
           /\ ThisToken # Some(NOTHING)
           /\ \/ parse_timer(ThisToken) = None
              \/ Val(parse_timer(ThisToken)) < REPLAY_LOW
              \/ Val(parse_timer(ThisToken)) > REPLAY_HIGH)
          => /\ consecutive_nothings' = 0
             /\ first_nothing_timestamp' = None
      ]_vars

\* C26 witness: a round-start token read after two "nothing" readings has
\* opened a round.
C26_Witness ==
    /\ pc = "loop"
    /\ i >= 4
    /\ ReadingToken(sorted_readings[i - 3]) = Some(NOTHING)
    /\ ReadingToken(sorted_readings[i - 2]) = Some(NOTHING)
    /\ ReadingToken(sorted_readings[i - 1]) \in StartTokens
    /\ consecutive_nothings = 0
    /\ current_round # None
    /\ Val(current_round).observed_start_timestamp
           = sorted_readings[i - 1].timestamp
    /\ Val(current_round).start_timer = ReadingToken(sorted_readings[i - 1])

\* C27: a round-start token read while a round with an active plant is
\* open, 35 s or more after the plant included, closes that round as
\* next_round_started and not as spike_timeout; the new round is open after
\* the reading, it is marked planted only if the reading itself carries the
\* red triangle, and the old plant timestamp is forgotten.
C27_StartBeforeSpikeTimeout ==
    [][(/\ AtReading
        /\ ThisToken \in StartTokens
        /\ current_round # None
        /\ spike_plant_time # None)
       => /\ Len(rounds') = Len(rounds) + 1
          /\ ClosedNow.round_number = Val(current_round).round_number
          /\ HasReason(ClosedNow, "next_round_started")
          /\ ClosedNow.spike_plant_timestamp = spike_plant_time
          /\ current_round' # None
          /\ Val(current_round').round_number
                 = Val(current_round).round_number + 1
          /\ Val(current_round').end_timestamp = None
          /\ Val(current_round').end_reason = None
          /\ Val(current_round').spike_planted
                 = ReadingRedTriangle(ThisReading)
          /\ spike_plant_time' = IF ReadingRedTriangle(ThisReading)
                                 THEN Some(ThisReading.timestamp)
                                 ELSE None
      ]_vars

\* C27 witness: a round-start token without cue was read 35 s after the
\* plant; the planted round is closed as next_round_started, the new round
\* is open and unmarked, and no plant is active.
C27_Witness ==
    /\ pc = "loop"
    /\ i >= 2
    /\ ReadingToken(sorted_readings[i - 1]) \in StartTokens
    /\ ~ReadingRedTriangle(sorted_readings[i - 1])
    /\ Len(rounds) >= 1
    /\ HasReason(rounds[Len(rounds)], "next_round_started")
    /\ rounds[Len(rounds)].spike_planted
    /\ sorted_readings[i - 1].timestamp
           - Val(rounds[Len(rounds)].spike_plant_timestamp)
       >= SPIKE_TIMEOUT_SECONDS
    /\ current_round # None
    /\ ~Val(current_round).spike_planted
    /\ Val(current_round).observed_start_timestamp
           = sorted_readings[i - 1].timestamp
    /\ spike_plant_time = None

MaxTimestamp(readings) ==
    CHOOSE m \in {readings[k].timestamp : k \in 1..Len(readings)} :
        \A k \in 1..Len(readings) : readings[k].timestamp <= m

\* C28: the round still open after the last reading is closed as vod_ended
\* at the greatest timestamp of the reading set; no round is added when
\* none is open; so only the last returned round can be vod_ended.
C28_VodEndedClosure ==
    /\ [][(pc = "loop" /\ pc' = "done")
          => IF current_round # None
             THEN /\ Len(rounds') = Len(rounds) + 1
                  /\ SubSeq(rounds', 1, Len(rounds))
                         = CalculateDurations(rounds)
                  /\ ClosedNow.round_number = Val(current_round).round_number
                  /\ HasReason(ClosedNow, "vod_ended")
                  /\ ClosedNow.end_timestamp
                         = Some(MaxTimestamp(timer_readings))
             ELSE Len(rounds') = Len(rounds)
         ]_vars
    /\ [](\A k \in 1..Len(rounds) :
              HasReason(rounds[k], "vod_ended")
                  => (Returned /\ k = Len(rounds)))

\* C28 witness: the input's last element is not its latest reading; the
\* round open at the end is returned as vod_ended at the latest timestamp,
\* after a round closed otherwise.
C28_Witness ==
    /\ Returned
    /\ Len(rounds) >= 2
    /\ HasReason(rounds[Len(rounds)], "vod_ended")
    /\ timer_readings[Len(timer_readings)].timestamp
           < MaxTimestamp(timer_readings)
    /\ rounds[Len(rounds)].end_timestamp = Some(MaxTimestamp(timer_readings))
    /\ rounds[Len(rounds)].observed_start_timestamp
           < MaxTimestamp(timer_readings)

IsStartReading(reading) == ReadingToken(reading) \in StartTokens

\* C29: the returned rounds are, one for one and in sweep order, the
\* readings of the input whose token is a round-start token: as many rounds
\* as such readings, each with the reading's timestamp as
\* observed_start_timestamp and the reading's token as start_timer.
C29_RoundPerStartReading ==
    Returned =>
        LET starts == SelectSeq(sorted_readings, IsStartReading)
        IN  /\ Len(rounds) = Len(starts)
            /\ Len(rounds)
                   = Cardinality({k \in 1..Len(timer_readings) :
                                      IsStartReading(timer_readings[k])})
            /\ \A k \in 1..Len(rounds) :
                   /\ rounds[k].observed_start_timestamp = starts[k].timestamp
                   /\ rounds[k].start_timer = ReadingToken(starts[k])

\* C29 witness: three round-start readings, one of them read during a
\* "nothing" run, among other readings give three rounds, the last one
\* closed at the end of the input.
C29_Witness ==
    /\ Returned
    /\ Len(rounds) = 3
    /\ Len(timer_readings) > 3
    /\ HasReason(rounds[3], "vod_ended")
    /\ \E k \in 2..Len(sorted_readings) :
           /\ IsStartReading(sorted_readings[k])
           /\ ReadingToken(sorted_readings[k - 1]) = Some(NOTHING)

\* C30 (as claimed): every returned round ends at or after its observed
\* start, and a planted round has its plant between its observed start and
\* its end.
C30_IntervalContainsObservations ==
    Returned =>
        \A k \in 1..Len(rounds) :
            /\ Val(rounds[k].end_timestamp)
                   >= rounds[k].observed_start_timestamp
            /\ rounds[k].spike_planted
                   => /\ rounds[k].observed_start_timestamp
                             <= Val(rounds[k].spike_plant_timestamp)
                      /\ Val(rounds[k].spike_plant_timestamp)
                             <= Val(rounds[k].end_timestamp)

\* C30 (amended): a planted round's plant is never before its observed
\* start; a round closed as timer_disappeared, spike_timeout or vod_ended
\* ends at or after its observed start and its plant; a round closed as
\* next_round_started is cut 10 s before the next refined start and may end
\* before its own observations, by at most 10 s for the observed start and
\* at most 20 s for the plant.
C30_IntervalUnlessCutByNextStart ==
    Returned =>
        \A k \in 1..Len(rounds) :
            LET round == rounds[k]
                end   == Val(round.end_timestamp)
            IN  /\ round.spike_planted
                       => round.observed_start_timestamp
                              <= Val(round.spike_plant_timestamp)
                /\ ~HasReason(round, "next_round_started")
                       => /\ end >= round.observed_start_timestamp
                          /\ round.spike_planted
                                 => Val(round.spike_plant_timestamp) <= end
                /\ HasReason(round, "next_round_started")
                       => /\ end >= round.observed_start_timestamp
                                        - MaxRefinement
                          /\ round.spike_planted
                                 => Val(round.spike_plant_timestamp)
                                        <= end + MaxRefinement
                                               + ROUND_END_BUFFER_SECONDS

\* C30 witness: a planted round cut by the next round start ends before its
\* observed start and its plant, and a planted round closed by the spike
\* timeout contains both.
C30_Witness ==
    /\ Returned
    /\ \E j, k \in 1..Len(rounds) :
           /\ HasReason(rounds[j], "next_round_started")
           /\ rounds[j].spike_planted
           /\ Val(rounds[j].end_timestamp) < rounds[j].observed_start_timestamp
           /\ Val(rounds[j].end_timestamp)
                  < Val(rounds[j].spike_plant_timestamp)
           /\ HasReason(rounds[k], "spike_timeout")
           /\ rounds[k].observed_start_timestamp
                  <= Val(rounds[k].spike_plant_timestamp)
           /\ Val(rounds[k].spike_plant_timestamp)
                  < Val(rounds[k].end_timestamp)

(***************************************************************************)
(* Consistency of the spike fields, of the order and of the sweep state    *)
(***************************************************************************)
\* C31: in every returned round spike_planted is true exactly when
\* spike_plant_timestamp is set, and a round closed as spike_timeout is
\* planted and ends 35 s or more after its plant.
C31_SpikeFieldsConsistent ==
    Returned =>
        \A k \in 1..Len(rounds) :
            /\ rounds[k].spike_planted
                   <=> rounds[k].spike_plant_timestamp # None
            /\ HasReason(rounds[k], "spike_timeout")
                   => /\ rounds[k].spike_planted
                      /\ rounds[k].spike_plant_timestamp # None
                      /\ Val(rounds[k].end_timestamp)
                             - Val(rounds[k].spike_plant_timestamp)
                         >= SPIKE_TIMEOUT_SECONDS

\* C31 witness: a round closed by the spike timeout exactly 35 s after its
\* plant and an unplanted round without plant timestamp are returned.
C31_Witness ==
    /\ Returned
    /\ \E j, k \in 1..Len(rounds) :
           /\ HasReason(rounds[j], "spike_timeout")
           /\ rounds[j].spike_planted
           /\ Val(rounds[j].end_timestamp)
                  - Val(rounds[j].spike_plant_timestamp)
              = SPIKE_TIMEOUT_SECONDS
           /\ ~rounds[k].spike_planted
           /\ rounds[k].spike_plant_timestamp = None

\* C32: when the timestamps of the input are pairwise distinct, every
\* permutation of the input is sorted into the same list, the one the sweep
\* goes through, and detect_rounds returns the same rounds for it.
C32_PermutationInvariant ==
    DistinctTimestamps(timer_readings) =>
        \A p \in Permutations(1..Len(timer_readings)) :
            /\ pc # "sort"
                   => SortByTimestamp(Permuted(timer_readings, p))
                          = sorted_readings
            /\ Returned
                   => rounds = detect_rounds(Permuted(timer_readings, p))

\* C32 witness: three readings with distinct timestamps given latest first
\* are returned as two rounds.
C32_Witness ==
    /\ Returned
    /\ Len(timer_readings) = 3
    /\ timer_readings[1].timestamp > timer_readings[2].timestamp
    /\ timer_readings[2].timestamp > timer_readings[3].timestamp
    /\ Len(rounds) = 2
    /\ rounds[1].observed_start_timestamp = timer_readings[3].timestamp

Sweeping == pc \in {"sort", "loop"}

\* C33: at every step of the sweep the active plant timestamp is set only
\* while a round is open that is marked planted at that timestamp, and the
\* start of the "nothing" run is set exactly when the run counter is above 0.
C33_SweepStateConsistent ==
    Sweeping =>
        /\ spike_plant_time # None
               => /\ current_round # None
                  /\ Val(current_round).spike_planted
                  /\ Val(current_round).spike_plant_timestamp = spike_plant_time
        /\ first_nothing_timestamp # None <=> consecutive_nothings > 0

\* C33 witness: in the middle of the sweep a plant is active on the open
\* round and a "nothing" run has just begun, after an earlier planted round
\* was closed.
C33_Witness ==
    /\ pc = "loop"
    /\ i >= 2
    /\ spike_plant_time # None
    /\ current_round # None
    /\ Val(current_round).spike_plant_timestamp = spike_plant_time
    /\ consecutive_nothings = 1
    /\ first_nothing_timestamp = Some(sorted_readings[i - 1].timestamp)
    /\ Len(rounds) >= 1
    /\ rounds[Len(rounds)].spike_planted

====
